---- MODULE Spec2Model ----
(***************************************************************************)
(* A model of src/ai_response.py: the corpus index built at start-up       *)
(* (load_gtoc_pdfs_by_placement), the session loop and its routing          *)
(* (start_chatbot, parse_gtoc_request) and the draft / critique / revise    *)
(* synthesis (create_fake_gtoc).                                            *)
(*                                                                          *)
(* Strings.  Names, user inputs and model completions are sequences of      *)
(* tokens; a token is an atomic piece of text (a word, a maximal digit run, *)
(* a white-space character, the marker "Target Name").  Document texts, whose *)
(* lengths matter ([:500], [:2000], [:3000]), are sequences of chunks       *)
(* [src, len]: the first len characters of the text named src.             *)
(***************************************************************************)
EXTENDS Integers, Sequences, FiniteSets, TLC

VARIABLES
    fs,                 \* the tree under "Gtoc information", in os.listdir order
    gtoc_data,          \* the index: ordered dict key -> ordered dict place -> text
    pc,                 \* position of the process
    turns,              \* inputs read so far
    user_input,         \* start_chatbot: the line read
    outcome,            \* what the turn was routed to
    prompt,             \* start_chatbot: the prompt of an answer turn
    gtoc_number,        \* create_fake_gtoc: its argument
    response,           \* create_fake_gtoc: the draft completion
    problem_text,       \* create_fake_gtoc
    csv_data,           \* create_fake_gtoc
    xai_feedback,       \* create_fake_gtoc
    score,              \* create_fake_gtoc
    improved_response,  \* create_fake_gtoc: the revised completion
    calls,              \* get_openai_response calls made by the current turn
    files,              \* the outputs on disk: event number -> the three texts
    files0,             \* the outputs on disk when the current turn began
    written             \* event numbers whose outputs were saved, in order

vars == <<fs, gtoc_data, pc, turns, user_input, outcome, prompt, gtoc_number,
          response, problem_text, csv_data, xai_feedback, score,
          improved_response, calls, files, files0, written>>

SeqsUpTo(S, n) == UNION {[1..k -> S] : k \in 0..n}

(***************************************************************************)
(* Token strings                                                           *)
(***************************************************************************)
\* str.lower() on one token
LowerTok(t) ==
    CASE t = "GTOC" -> "gtoc"
      [] t = "Gtoc" -> "gtoc"
      [] t = "Make" -> "make"
      [] t = "Exit" -> "exit"
      [] t = "2ND" -> "2nd"
      [] t = "Winner" -> "winner"
      [] t = "Place" -> "place"
      [] t = "Honorable" -> "honorable"
      [] t = ".PDF" -> ".pdf"
      [] t = "B" -> "b"
      [] t = "ST" -> "st"
      [] OTHER -> t

\* str.upper() on one token (keys and places are lower case already)
UpperTok(t) ==
    CASE t = "gtoc" -> "GTOC"
      [] t = "1st" -> "1ST"
      [] t = "2nd" -> "2ND"
      [] t = "3rd" -> "3RD"
      [] t = "other" -> "OTHER"
      [] OTHER -> t

Lower(s) == [i \in 1..Len(s) |-> LowerTok(s[i])]
Upper(s) == [i \in 1..Len(s) |-> UpperTok(s[i])]

\* "w in s" for a one-token word w
Contains(s, w) == \E i \in 1..Len(s) : s[i] = w

\* the characters of a token string, as one string
RECURSIVE Join(_)
Join(s) == IF s = <<>> THEN "" ELSE Head(s) \o Join(Tail(s))

IsSpace(t) == t \in {" ", "\n"}

\* str.strip()
RECURSIVE LStrip(_)
LStrip(s) == IF s # <<>> /\ IsSpace(Head(s)) THEN LStrip(Tail(s)) ELSE s

RECURSIVE RStrip(_)
RStrip(s) ==
    IF s # <<>> /\ IsSpace(s[Len(s)]) THEN RStrip(SubSeq(s, 1, Len(s) - 1)) ELSE s

Strip(s) == RStrip(LStrip(s))

(***************************************************************************)
(* Document texts                                                          *)
(***************************************************************************)
Lit(s) == [src |-> s, len |-> Len(s)]

RECURSIVE TextLen(_)
TextLen(t) == IF t = <<>> THEN 0 ELSE Head(t).len + TextLen(Tail(t))

\* t[:n]
RECURSIVE Slice(_, _)
Slice(t, n) ==
    IF t = <<>> \/ n <= 0 THEN <<>>
    ELSE IF Head(t).len <= n
         THEN <<Head(t)>> \o Slice(Tail(t), n - Head(t).len)
         ELSE <<[src |-> Head(t).src, len |-> n]>>

(***************************************************************************)
(* Ordered dicts (Python keeps insertion order; d[k] = v keeps k's place)  *)
(***************************************************************************)
DictHas(d, k) == \E i \in 1..Len(d) : d[i].key = k

\* d.get(k): an option, [some |-> FALSE] for Python's None
Nothing == [some |-> FALSE]
Some(v) == [some |-> TRUE, val |-> v]

DictGet(d, k) ==
    IF DictHas(d, k) THEN Some(d[CHOOSE i \in 1..Len(d) : d[i].key = k].value)
    ELSE Nothing

DictPut(d, k, v) ==
    IF DictHas(d, k)
    THEN [i \in 1..Len(d) |-> IF d[i].key = k THEN [key |-> k, value |-> v] ELSE d[i]]
    ELSE Append(d, [key |-> k, value |-> v])

(***************************************************************************)
(* extract_text_from_pdf                                                   *)
(***************************************************************************)
\* A file: [name, doc, len, ok]; ok = FALSE when fitz raises on it.
extract_text_from_pdf(f) ==
    IF f.ok
    THEN (IF f.len = 0 THEN <<>> ELSE <<[src |-> f.doc, len |-> f.len]>>)
    ELSE <<Lit("Error reading PDF: cannot open " \o f.doc)>>

(***************************************************************************)
(* load_gtoc_pdfs_by_placement                                             *)
(***************************************************************************)
\* lines 39-46
Placement(subfolder) ==
    LET folder_name == Lower(subfolder) IN
    IF Contains(folder_name, "1st") THEN "1st"
    ELSE IF Contains(folder_name, "2nd") THEN "2nd"
    ELSE IF Contains(folder_name, "3rd") THEN "3rd"
    ELSE "other"

\* file.lower().endswith(".pdf")
IsPdf(file) == file.name # <<>> /\ LowerTok(file.name[Len(file.name)]) = ".pdf"

\* lines 48-52: the loop over one rank folder's files, left at the first .pdf
RECURSIVE ScanFiles(_, _, _)
ScanFiles(placement_map, placement, listing) ==
    IF listing = <<>> THEN placement_map
    ELSE IF IsPdf(Head(listing))
         THEN DictPut(placement_map, placement, extract_text_from_pdf(Head(listing)))
         ELSE ScanFiles(placement_map, placement, Tail(listing))

\* lines 34-52: the loop over one event folder's entries
RECURSIVE ScanSubfolders(_, _)
ScanSubfolders(placement_map, listing) ==
    IF listing = <<>> THEN placement_map
    ELSE LET sub == Head(listing) IN
         IF ~sub.isdir
         THEN ScanSubfolders(placement_map, Tail(listing))
         ELSE ScanSubfolders(ScanFiles(placement_map, Placement(sub.name), sub.entries),
                             Tail(listing))

\* lines 28-55: the loop over the base folder's entries
RECURSIVE ScanEvents(_, _)
ScanEvents(data, listing) ==
    IF listing = <<>> THEN data
    ELSE LET gtoc_folder == Head(listing) IN
         IF ~gtoc_folder.isdir
         THEN ScanEvents(data, Tail(listing))
         ELSE LET placement_map == ScanSubfolders(<<>>, gtoc_folder.entries) IN
              ScanEvents(IF placement_map # <<>>
                         THEN DictPut(data, Lower(gtoc_folder.name), placement_map)
                         ELSE data,
                         Tail(listing))

load_gtoc_pdfs_by_placement(base) == ScanEvents(<<>>, base)

(***************************************************************************)
(* Numbers in text: a maximal digit run is one token                       *)
(***************************************************************************)
\* int(t) for the digit runs the model uses
NumVal ==
    [t \in {"0", "1", "5", "7", "05", "11", "42", "50", "69", "70", "85", "150"} |->
        CASE t = "0" -> 0 [] t = "1" -> 1 [] t = "5" -> 5 [] t = "7" -> 7
          [] t = "05" -> 5 [] t = "11" -> 11 [] t = "42" -> 42 [] t = "50" -> 50
          [] t = "69" -> 69 [] t = "70" -> 70 [] t = "85" -> 85 [] t = "150" -> 150]

IsNum(t) == t \in DOMAIN NumVal

\* a token string is well formed when its digit runs are maximal
WellFormed(s) == \A i \in 1..(Len(s) - 1) : ~(IsNum(s[i]) /\ IsNum(s[i + 1]))

\* the first index from i on that holds no white space (Len(s) + 1 if none)
RECURSIVE SkipSpace(_, _)
SkipSpace(s, i) == IF i <= Len(s) /\ IsSpace(s[i]) THEN SkipSpace(s, i + 1) ELSE i

\* whether label\s*(\d+) matches at index i of s
LabelAt(s, label, i) ==
    /\ s[i] = label
    /\ SkipSpace(s, i + 1) <= Len(s)
    /\ IsNum(s[SkipSpace(s, i + 1)])

\* re.search(label\s*(\d+), s) from index lo on: int(group(1)) of the leftmost match
SearchNumber(s, label, lo) ==
    IF \E i \in lo..Len(s) : LabelAt(s, label, i)
    THEN LET i == CHOOSE i \in lo..Len(s) :
                      LabelAt(s, label, i) /\ \A j \in lo..(i - 1) : ~LabelAt(s, label, j)
         IN  Some(NumVal[s[SkipSpace(s, i + 1)]])
    ELSE Nothing

(***************************************************************************)
(* parse_gtoc_request and the generation pattern of start_chatbot          *)
(***************************************************************************)
MaxEventNumber == 99

\* f"gtoc{number}"
GtocKey(number) == <<"gtoc", ToString(number)>>

IsVerb(t) == t \in {"create", "generate", "make"}

\* line 214: re.search(r"(?:create|generate|make).*?gtoc\s*(\d+)", lowered)
GenMatch(lowered) ==
    IF \E v \in 1..Len(lowered) : IsVerb(lowered[v])
    THEN LET v == CHOOSE v \in 1..Len(lowered) :
                      IsVerb(lowered[v]) /\ \A w \in 1..(v - 1) : ~IsVerb(lowered[w])
         IN  SearchNumber(lowered, "gtoc", v + 1)
    ELSE Nothing

\* whether (1st|first|2nd|second|3rd|third) matches at index i; "1st" is "1", "st"
PlaceAt(s, i) ==
    IF s[i] \in {"first", "second", "third"} THEN Some(s[i])
    ELSE IF i < Len(s) /\ <<s[i], s[i + 1]>> \in {<<"1", "st">>, <<"2", "nd">>, <<"3", "rd">>}
         THEN Some(s[i] \o s[i + 1])
         ELSE Nothing

\* lines 195-199
place_map(word) ==
    CASE word \in {"1st", "first"} -> "1st"
      [] word \in {"2nd", "second"} -> "2nd"
      [] word \in {"3rd", "third"} -> "3rd"

\* lines 184-202
parse_gtoc_request(input) ==
    LET lowered == Lower(input)
        match == SearchNumber(lowered, "gtoc", 1)
        place_match ==
            IF \E i \in 1..Len(lowered) : PlaceAt(lowered, i).some
            THEN PlaceAt(lowered, CHOOSE i \in 1..Len(lowered) :
                     PlaceAt(lowered, i).some /\ \A j \in 1..(i - 1) : ~PlaceAt(lowered, j).some)
            ELSE Nothing
        placement_key == IF place_match.some THEN Some(place_map(place_match.val)) ELSE Nothing
    IN  IF match.some /\ match.val > MaxEventNumber
        THEN [gtoc_key |-> Nothing, placement_key |-> Nothing]
        ELSE [gtoc_key |-> IF match.some THEN Some(GtocKey(match.val)) ELSE Nothing,
              placement_key |-> placement_key]

(***************************************************************************)
(* The prompt of an answer turn (start_chatbot, lines 225-248)             *)
(***************************************************************************)
ScopedLimit == 2000
EventLimit == 800
GlobalEntryLimit == 500
GlobalLimit == 3000

\* Python truthiness of d.get(k): not None and not empty
Truthy(opt) == opt.some /\ opt.val # <<>>

\* lines 237-239
RECURSIVE Combined(_)
Combined(folder_data) ==
    IF folder_data = <<>> THEN <<>>
    ELSE <<Lit(UpperTok(Head(folder_data).key) \o " PLACE:\n")>>
         \o Slice(Head(folder_data).value, EventLimit)
         \o (IF Tail(folder_data) = <<>> THEN <<>> ELSE <<Lit("\n\n")>>)
         \o Combined(Tail(folder_data))

\* lines 246-247
RECURSIVE PlacementsText(_, _)
PlacementsText(g_key, placements) ==
    IF placements = <<>> THEN <<>>
    ELSE <<Lit(Join(Upper(g_key)) \o " " \o UpperTok(Head(placements).key) \o ":\n")>>
         \o Slice(Head(placements).value, GlobalEntryLimit)
         \o <<Lit("\n\n")>>
         \o PlacementsText(g_key, Tail(placements))

\* lines 244-247
RECURSIVE AllText(_)
AllText(data) ==
    IF data = <<>> THEN <<>>
    ELSE PlacementsText(Head(data).key, Head(data).value) \o AllText(Tail(data))

\* a faulty variant of GlobalContext: the overall cut is missing
GlobalContext_Uncut(data) == AllText(data)

\* all_text[:3000]
GlobalContext(data) == Slice(AllText(data), GlobalLimit)

\* content[:2000]
ScopedContext(content) == Slice(content, ScopedLimit)

\* whether the rank's text is used (line 232)
HasContent(content) == Truthy(content)

Prompt(tmpl, key, place, context, asks, question) ==
    [tmpl |-> tmpl, key |-> key, place |-> place, context |-> context,
     asks |-> asks, question |-> question]

\* lines 225-248
BuildPrompt(data, input) ==
    LET req == parse_gtoc_request(input) IN
    IF req.gtoc_key.some
    THEN LET gtoc_key == req.gtoc_key.val
             folder_data == DictGet(data, gtoc_key)
         IN  IF Truthy(folder_data)
             THEN IF req.placement_key.some
                  THEN LET content == DictGet(folder_data.val, req.placement_key.val) IN
                       IF HasContent(content)
                       THEN Prompt("Based only on this content", "", "",
                                   ScopedContext(content.val), TRUE, input)
                       ELSE Prompt("No info for", Join(Upper(gtoc_key)),
                                   req.placement_key.val, <<>>, FALSE, <<>>)
                  ELSE Prompt("Here's info for", Join(Upper(gtoc_key)), "",
                              Combined(folder_data.val), TRUE, input)
             ELSE Prompt("not found", Join(Upper(gtoc_key)), "", <<>>, FALSE, <<>>)
    ELSE Prompt("Based on all known GTOCs", "", "", GlobalContext(data), TRUE, input)

NoPrompt == Prompt("", "", "", <<>>, FALSE, <<>>)

(***************************************************************************)
(* create_fake_gtoc                                                        *)
(***************************************************************************)
Marker == "Target Name"

PassScore == 70

\* line 131: the values both outputs start from
Fallback ==
    [problem |-> <<"No problem generated">>,
     csv |-> <<Marker, ",Distance (AU),Delta-V (km/s),Time Window (days)">>]

\* the index of the first occurrence of w in s
FirstIndex(s, w) ==
    CHOOSE i \in 1..Len(s) : s[i] = w /\ \A j \in 1..(i - 1) : s[j] # w

\* a faulty variant of SplitOnMarker: the split is made at the last marker (rsplit)
LastIndex(s, w) ==
    CHOOSE i \in 1..Len(s) : s[i] = w /\ \A j \in (i + 1)..Len(s) : s[j] # w

SplitOnMarker_Last(completion, old) ==
    IF Contains(completion, Marker)
    THEN LET i == LastIndex(completion, Marker) IN
         [problem |-> Strip(SubSeq(completion, 1, i - 1)),
          csv |-> <<Marker>> \o Strip(SubSeq(completion, i + 1, Len(completion)))]
    ELSE old

\* lines 132-135 and 160-163: completion.split("Target Name", 1), when it holds
\* the marker; `old` is kept when it does not
SplitOnMarker(completion, old) ==
    IF Contains(completion, Marker)
    THEN LET i == FirstIndex(completion, Marker) IN
         [problem |-> Strip(SubSeq(completion, 1, i - 1)),
          csv |-> <<Marker>> \o Strip(SubSeq(completion, i + 1, Len(completion)))]
    ELSE old

\* lines 142-146
ParseScore(feedback) ==
    LET match == SearchNumber(feedback, "Score:", 1) IN
    IF match.some THEN match.val ELSE 0

\* a faulty variant of NeedsRevision: a score of exactly 70 is revised too
NeedsRevision_Inclusive(s) == s <= PassScore

\* line 149
NeedsRevision(s) == s < PassScore

\* line 112: the completion as get_openai_response returns it
Completion(raw) == Strip(raw)

\* a faulty variant of SaveOutputs: the new event is also entered into the index
SaveOutputs_Indexed(n, problem, csv, feedback) ==
    /\ files' = (n :> [problem |-> problem, csv |-> csv, feedback |-> feedback]) @@ files
    /\ written' = Append(written, n)
    /\ outcome' = "created"
    /\ pc' = "input"
    /\ gtoc_data' = DictPut(gtoc_data, GtocKey(n), <<[key |-> "other", value |-> <<>>]>>)

\* lines 167-180: the three outputs of event n are written
SaveOutputs(n, problem, csv, feedback) ==
    /\ files' = (n :> [problem |-> problem, csv |-> csv, feedback |-> feedback]) @@ files
    /\ written' = Append(written, n)
    /\ outcome' = "created"
    /\ pc' = "input"
    /\ UNCHANGED gtoc_data

(***************************************************************************)
(* The process: main, then start_chatbot's loop                            *)
(***************************************************************************)
\* one call of get_openai_response (lines 102-112): what it was for, and
\* whether the gateway answered
Call(kind, ok) == [kind |-> kind, ok |-> ok]

\* lines 255-257: main builds the index and enters the loop
Main ==
    /\ pc = "main"
    /\ gtoc_data' = load_gtoc_pdfs_by_placement(fs)
    /\ pc' = "input"
    /\ UNCHANGED <<fs, turns, user_input, outcome, prompt, gtoc_number, response,
                   problem_text, csv_data, xai_feedback, score, improved_response,
                   calls, files, files0, written>>

\* a faulty variant of AlreadyExists: the number, not the key made from it, is looked up
AlreadyExists_ByNumber(data, future_gtoc) == DictHas(data, <<ToString(future_gtoc)>>)

\* line 217
AlreadyExists(data, future_gtoc) == DictHas(data, GtocKey(future_gtoc))

\* lines 210-248: one line is read and routed, up to the first gateway call.
\* The locals of an earlier create_fake_gtoc are gone with its frame.
ReadInput(Inputs, maxTurns) ==
    /\ pc = "input"
    /\ turns < maxTurns
    /\ \E u \in Inputs :
        /\ Join(Lower(u)) # "exit"
        /\ user_input' = u
        /\ turns' = turns + 1
        /\ calls' = <<>>
        /\ files0' = files
        /\ response' = <<>>
        /\ problem_text' = <<>>
        /\ csv_data' = <<>>
        /\ xai_feedback' = <<>>
        /\ score' = 0
        /\ improved_response' = <<>>
        /\ LET gen_match == GenMatch(Lower(u)) IN
           IF gen_match.some
           THEN IF ~AlreadyExists(gtoc_data, gen_match.val)
                THEN /\ outcome' = "generate"
                     /\ gtoc_number' = gen_match.val
                     /\ pc' = "draft"
                     /\ UNCHANGED prompt
                ELSE /\ outcome' = "exists"
                     /\ pc' = "input"
                     /\ UNCHANGED <<prompt, gtoc_number>>
           ELSE /\ outcome' = "answer"
                /\ prompt' = BuildPrompt(gtoc_data, u)
                /\ pc' = "answer"
                /\ UNCHANGED gtoc_number
    /\ UNCHANGED <<fs, gtoc_data, files, written>>

\* line 211: the exit sentinel
Exit(ExitInputs) ==
    /\ pc = "input"
    /\ \E u \in ExitInputs :
        /\ Join(Lower(u)) = "exit"
        /\ user_input' = u
    /\ pc' = "exited"
    /\ UNCHANGED <<fs, gtoc_data, turns, outcome, prompt, gtoc_number, response,
                   problem_text, csv_data, xai_feedback, score, improved_response,
                   calls, files, files0, written>>

\* lines 250-251: the gateway answers the prompt of an answer turn
AnswerReply ==
    /\ pc = "answer"
    /\ calls' = Append(calls, Call("answer", TRUE))
    /\ pc' = "input"
    /\ UNCHANGED <<fs, gtoc_data, turns, user_input, outcome, prompt, gtoc_number,
                   response, problem_text, csv_data, xai_feedback, score,
                   improved_response, files, files0, written>>

\* lines 128-135: the gateway returns the draft, which is split
Draft(Completions) ==
    /\ pc = "draft"
    /\ \E raw \in Completions :
        LET parts == SplitOnMarker(Completion(raw), Fallback) IN
        /\ response' = Completion(raw)
        /\ problem_text' = parts.problem
        /\ csv_data' = parts.csv
    /\ calls' = Append(calls, Call("draft", TRUE))
    /\ pc' = "critique"
    /\ UNCHANGED <<fs, gtoc_data, turns, user_input, outcome, prompt, gtoc_number,
                   xai_feedback, score, improved_response, files, files0, written>>

\* lines 137-149, and 167-180 when the score passes
Critique(Critiques) ==
    /\ pc = "critique"
    /\ \E raw \in Critiques :
        /\ xai_feedback' = Completion(raw)
        /\ score' = ParseScore(Completion(raw))
        /\ IF NeedsRevision(ParseScore(Completion(raw)))
           THEN /\ pc' = "revise"
                /\ UNCHANGED <<gtoc_data, outcome, files, written>>
           ELSE SaveOutputs(gtoc_number, problem_text, csv_data, Completion(raw))
    /\ calls' = Append(calls, Call("critique", TRUE))
    /\ UNCHANGED <<fs, turns, user_input, prompt, gtoc_number, response,
                   problem_text, csv_data, improved_response, files0>>

\* a faulty variant of Revise: a revision without the marker falls back to the placeholder
Revise_Refallback(Completions) ==
    /\ pc = "revise"
    /\ \E raw \in Completions :
        LET parts == SplitOnMarker(Completion(raw), Fallback) IN
        /\ improved_response' = Completion(raw)
        /\ problem_text' = parts.problem
        /\ csv_data' = parts.csv
        /\ SaveOutputs(gtoc_number, parts.problem, parts.csv, xai_feedback)
    /\ calls' = Append(calls, Call("revise", TRUE))
    /\ UNCHANGED <<fs, turns, user_input, prompt, gtoc_number, response,
                   xai_feedback, score, files0>>

\* lines 159-180: the gateway returns the revision, which is split and saved
Revise(Completions) ==
    /\ pc = "revise"
    /\ \E raw \in Completions :
        LET parts == SplitOnMarker(Completion(raw),
                                   [problem |-> problem_text, csv |-> csv_data]) IN
        /\ improved_response' = Completion(raw)
        /\ problem_text' = parts.problem
        /\ csv_data' = parts.csv
        /\ SaveOutputs(gtoc_number, parts.problem, parts.csv, xai_feedback)
    /\ calls' = Append(calls, Call("revise", TRUE))
    /\ UNCHANGED <<fs, turns, user_input, prompt, gtoc_number, response,
                   xai_feedback, score, files0>>

\* a faulty variant of GatewayFailure: the failure is swallowed and the turn goes on to
\* save what the synthesis holds so far
GatewayFailure_Swallowed ==
    /\ pc \in {"answer", "draft", "critique", "revise"}
    /\ calls' = Append(calls, Call(pc, FALSE))
    /\ pc' = "input"
    /\ IF pc = "answer"
       THEN UNCHANGED <<files, written>>
       ELSE /\ files' = (gtoc_number :> [problem |-> problem_text, csv |-> csv_data,
                                         feedback |-> xai_feedback]) @@ files
            /\ written' = Append(written, gtoc_number)
    /\ UNCHANGED <<fs, gtoc_data, turns, user_input, outcome, prompt, gtoc_number,
                   response, problem_text, csv_data, xai_feedback, score,
                   improved_response, files0>>

\* lines 103-111 raise: nothing in the program catches it, the process ends
GatewayFailure ==
    /\ pc \in {"answer", "draft", "critique", "revise"}
    /\ calls' = Append(calls, Call(pc, FALSE))
    /\ pc' = "crashed"
    /\ UNCHANGED <<fs, gtoc_data, turns, user_input, outcome, prompt, gtoc_number,
                   response, problem_text, csv_data, xai_feedback, score,
                   improved_response, files, files0, written>>

InitWith(Layouts) ==
    /\ fs \in Layouts
    /\ gtoc_data = <<>>
    /\ pc = "main"
    /\ turns = 0
    /\ user_input = <<>>
    /\ outcome = "none"
    /\ prompt = NoPrompt
    /\ gtoc_number = 0
    /\ response = <<>>
    /\ problem_text = <<>>
    /\ csv_data = <<>>
    /\ xai_feedback = <<>>
    /\ score = 0
    /\ improved_response = <<>>
    /\ calls = <<>>
    /\ files = <<>>
    /\ files0 = <<>>
    /\ written = <<>>

NextWith(Inputs, Completions, Critiques, maxTurns) ==
    \/ Main
    \/ ReadInput(Inputs, maxTurns)
    \/ Exit({<<"exit">>, <<"Exit">>})
    \/ AnswerReply
    \/ Draft(Completions)
    \/ Critique(Critiques)
    \/ Revise(Completions)
    \/ GatewayFailure

(***************************************************************************)
(* Bounds and the inputs drawn from them                                   *)
(***************************************************************************)
MaxTurns == 3
MaxInputLen == 4
MaxCompletionLen == 3
MaxCritiqueLen == 4
MaxSubfolders == 2
MaxFilesPerFolder == 2

Dir(name, entries) == [name |-> name, isdir |-> TRUE, entries |-> entries]
Plain(name) == [name |-> name, isdir |-> FALSE, entries |-> <<>>]
File(name, doc, len, ok) == [name |-> name, doc |-> doc, len |-> len, ok |-> ok]

PdfA == File(<<"a", ".pdf">>, "A", 2500, TRUE)
PdfB == File(<<"B", ".PDF">>, "B", 700, TRUE)
PdfC == File(<<"c", ".pdf">>, "C", 520, TRUE)
Scanned == File(<<"scan", ".pdf">>, "E", 0, TRUE)
Broken == File(<<"broken", ".pdf">>, "X", 0, FALSE)
Notes == File(<<"notes", ".txt">>, "N", 40, TRUE)

FirstFolder == <<"Winner", "-", "1st", "-", "Place">>
SecondFolder == <<"2ND", " ", "runner", " ", "up">>
ThirdFolder == <<"bronze", "-", "3rd">>
OtherFolder == <<"Honorable">>
MiscFolder == <<"misc">>

\* one event, the first place's folder holding `listing`
OneEvent(listing) ==
    <<Dir(<<"Gtoc", "5">>, <<Dir(FirstFolder, listing), Dir(OtherFolder, <<PdfB>>)>>),
      Plain(<<"readme", ".txt">>)>>

FullEvent(name) ==
    Dir(name, <<Dir(FirstFolder, <<PdfA>>), Dir(SecondFolder, <<PdfB>>),
                Dir(ThirdFolder, <<PdfC>>), Dir(OtherFolder, <<PdfA>>)>>)

BigCorpus == <<FullEvent(<<"GTOC", "5">>), FullEvent(<<"Gtoc", "7">>)>>

RouteLayouts ==
    {OneEvent(<<PdfA>>), OneEvent(<<PdfB>>), OneEvent(<<Scanned>>), OneEvent(<<Broken>>),
     OneEvent(<<Notes>>), BigCorpus}

SessionLayouts == {OneEvent(<<Notes, PdfA, PdfB>>), BigCorpus}

\* every tree of one event folder within the bounds
FileListings == SeqsUpTo({PdfA, PdfB, Notes}, MaxFilesPerFolder)

SubfolderEntries ==
    {Dir(name, listing) : name \in {FirstFolder, OtherFolder, MiscFolder},
                          listing \in FileListings}
    \cup {Plain(<<"notes", ".txt">>)}

BuildLayouts ==
    {<<Dir(<<"Gtoc", "5">>, subs), Plain(<<"readme", ".txt">>)>> :
        subs \in SeqsUpTo(SubfolderEntries, MaxSubfolders)}

RouteInputs ==
    {u \in SeqsUpTo({"Make", "GTOC", " ", "5", "150", "first"}, MaxInputLen) :
        WellFormed(u)}

SessionInputs ==
    {<<"what", " ", "is", " ", "GTOC">>,
     <<"gtoc", "5", " ", "1", "st">>,
     <<"gtoc", "5", " ", "third">>,
     <<"GTOC", "5">>,
     <<"gtoc", "7">>,
     <<"Make", " ", "gtoc", "05">>,
     <<"create", " ", "GTOC", " ", "7">>,
     <<"generate", " ", "gtoc", "150">>}

AllCompletions == SeqsUpTo({Marker, " ", "a"}, MaxCompletionLen)

SomeCompletions == {<<"a", " ", Marker, " ", "b">>, <<"c">>}

AllCritiques ==
    {c \in SeqsUpTo({"Score:", "score:", " ", "69", "70", "85"}, MaxCritiqueLen) :
        WellFormed(c)}

SomeCritiques == {<<"Score:", " ", "85">>, <<"Score:", " ", "42">>, <<"fine">>}

(***************************************************************************)
(* Specifications                                                          *)
(***************************************************************************)
\* a session of several turns
Init == InitWith(SessionLayouts)
Next == NextWith(SessionInputs, SomeCompletions, SomeCritiques, MaxTurns)
Spec == Init /\ [][Next]_vars

\* one turn, over every input line within the bound
InitRoute == InitWith(RouteLayouts)
NextRoute == NextWith(RouteInputs, {<<"c">>}, {<<"Score:", " ", "85">>, <<"fine">>}, 1)
SpecRoute == InitRoute /\ [][NextRoute]_vars

\* one synthesis, over every completion within the bound
InitSplit == InitWith(SessionLayouts)
NextSplit ==
    NextWith({<<"create", " ", "GTOC", " ", "7">>, <<"GTOC", "5">>}, AllCompletions,
             SomeCritiques, 1)
SpecSplit == InitSplit /\ [][NextSplit]_vars

\* one synthesis, over every critique within the bound
InitScore == InitWith(SessionLayouts)
NextScore ==
    NextWith({<<"create", " ", "GTOC", " ", "7">>, <<"GTOC", "5">>}, SomeCompletions,
             AllCritiques, 1)
SpecScore == InitScore /\ [][NextScore]_vars

\* the index built from every tree within the bounds
InitBuild == InitWith(BuildLayouts)
NextBuild ==
    NextWith({<<"create", " ", "GTOC", " ", "7">>, <<"GTOC", "5">>}, {<<"c">>},
             {<<"Score:", " ", "85">>, <<"fine">>}, 1)
SpecBuild == InitBuild /\ [][NextBuild]_vars

(***************************************************************************)
(* Properties                                                              *)
(***************************************************************************)
Kinds(cs) == [i \in 1..Len(cs) |-> cs[i].kind]
AllOk(cs) == \A i \in 1..Len(cs) : cs[i].ok

\* the indices of the critique text at which a "Score:" label with a number stands
ScoreTokens(text) == {i \in 1..Len(text) : LabelAt(text, "Score:", i)}

\* the number n of the first "Score: n" of the text
FirstScore(text) ==
    LET i == CHOOSE i \in ScoreTokens(text) : \A j \in ScoreTokens(text) : i <= j
    IN  NumVal[text[SkipSpace(text, i + 1)]]

\* C1: a completed synthesis made, in this order, one draft call, one critique
\* call and, exactly when the critique's "Score: n" (the first one in the text)
\* has n < 70 or the critique holds no "Score:" followed by a number, one
\* revision call after the critique; so 2 or 3 calls, none after the revision.
C1_CallsFixedByCritique ==
    outcome = "created" =>
        /\ AllOk(calls)
        /\ Len(calls) \in {2, 3}
        /\ (ScoreTokens(xai_feedback) = {} \/ FirstScore(xai_feedback) < 70)
              => Kinds(calls) = <<"draft", "critique", "revise">>
        /\ (ScoreTokens(xai_feedback) # {} /\ FirstScore(xai_feedback) >= 70)
              => Kinds(calls) = <<"draft", "critique">>
        /\ files[gtoc_number].feedback = xai_feedback

\* C1 witness: a critique that holds text but no score led to the revision
C1_Witness_NoScore ==
    /\ outcome = "created"
    /\ ScoreTokens(xai_feedback) = {}
    /\ xai_feedback # <<>>
    /\ Kinds(calls) = <<"draft", "critique", "revise">>

\* the text before and after the first marker of a completion that holds one
BeforeMarker(c) == SubSeq(c, 1, FirstIndex(c, Marker) - 1)
AfterMarker(c) == SubSeq(c, FirstIndex(c, Marker) + 1, Len(c))

\* C3 as stated: after the draft step, a completion with the marker gives the
\* trimmed text before the first marker as problem text and the marker followed
\* by the text after it as table; one without gives the placeholder and the
\* header line.
C3_Original_TableIsMarkerPlusRest ==
    pc = "critique" =>
        IF Contains(response, Marker)
        THEN /\ problem_text = Strip(BeforeMarker(response))
             /\ csv_data = <<Marker>> \o AfterMarker(response)
        ELSE /\ problem_text = <<"No problem generated">>
             /\ csv_data = <<Marker, ",Distance (AU),Delta-V (km/s),Time Window (days)">>

\* C3 amended: as C3, but the table is the marker followed by the TRIMMED text
\* after the first marker (white space between the marker and what follows it
\* is dropped).
C3_MarkerSplit ==
    pc = "critique" =>
        IF Contains(response, Marker)
        THEN /\ problem_text = Strip(BeforeMarker(response))
             /\ csv_data = <<Marker>> \o Strip(AfterMarker(response))
        ELSE /\ problem_text = <<"No problem generated">>
             /\ csv_data = <<Marker, ",Distance (AU),Delta-V (km/s),Time Window (days)">>

\* C3 witness: a draft whose first marker is followed by white space and then
\* by more text
C3_Witness_SpaceAfterMarker ==
    /\ pc = "critique"
    /\ Contains(response, Marker)
    /\ AfterMarker(response) # <<>>
    /\ IsSpace(Head(AfterMarker(response)))
    /\ Len(csv_data) > 1

\* C10: when a revision was made, the saved problem text and table are those
\* of the draft (whatever they were) if the revised completion lacks the
\* marker, and both are the split of the revised completion if it holds the
\* marker; the saved feedback is the critique of the draft.
C10_RevisionKeepsOrReplacesBoth ==
    (outcome = "created" /\ Kinds(calls) = <<"draft", "critique", "revise">>) =>
        LET draft == SplitOnMarker(response, Fallback)
            saved == files[gtoc_number]
        IN  /\ saved.feedback = xai_feedback
            /\ IF Contains(improved_response, Marker)
               THEN /\ saved.problem = Strip(BeforeMarker(improved_response))
                    /\ saved.csv = <<Marker>> \o Strip(AfterMarker(improved_response))
               ELSE /\ saved.problem = draft.problem
                    /\ saved.csv = draft.csv

\* C10 witness: a draft with the marker was revised by a completion without it
C10_Witness_RevisionWithoutMarker ==
    /\ outcome = "created"
    /\ Kinds(calls) = <<"draft", "critique", "revise">>
    /\ Contains(response, Marker)
    /\ ~Contains(improved_response, Marker)
    /\ improved_response # <<>>
    /\ files[gtoc_number].problem # <<"No problem generated">>

\* the event number a generation request names, when the line is one
Requested(input) == GenMatch(Lower(input))

\* C2: a turn whose line matches the generation pattern for a number n whose key
\* "gtoc<n>" is in the index is reported as 'already exists': no synthesis is
\* started, no gateway call is made and nothing is written; and a synthesis is
\* only ever under way, or completed, for a number whose key is not in the index.
C2_NoSynthesisForIndexedEvent ==
    /\ (pc \in {"input", "answer", "draft", "critique", "revise", "crashed"}
        /\ turns > 0
        /\ Requested(user_input).some
        /\ DictHas(gtoc_data, <<"gtoc", ToString(Requested(user_input).val)>>))
          => /\ outcome = "exists"
             /\ pc = "input"
             /\ calls = <<>>
             /\ files = files0
    /\ (pc \in {"draft", "critique", "revise"} \/ outcome \in {"generate", "created"})
          => ~DictHas(gtoc_data, <<"gtoc", ToString(gtoc_number)>>)
    /\ \A i \in 1..Len(written) : ~DictHas(gtoc_data, <<"gtoc", ToString(written[i])>>)

\* C2 witness: a generation request written "gtoc05" was refused for the
\* indexed event 5 after an earlier synthesis of another event
C2_Witness_Refused ==
    /\ outcome = "exists"
    /\ Requested(user_input).some
    /\ Requested(user_input).val = 5
    /\ DictHas(gtoc_data, <<"gtoc", "5">>)
    /\ written # <<>>

\* C5: once a gateway call of a turn has failed, the process is stopped there
\* (nothing caught the failure, no later step runs) and the outputs on disk are
\* those the turn began with: none of the synthesis' outputs is written and no
\* earlier output is changed.
C5_FailureLeavesFilesAlone ==
    /\ [](\A i \in 1..Len(calls) :
            ~calls[i].ok => /\ i = Len(calls)
                            /\ pc = "crashed"
                            /\ files = files0)
    /\ [][pc # "crashed"]_vars

\* C5 witness: the revision call of a second synthesis of an event failed while
\* the outputs of its first synthesis were on disk
C5_Witness_FailedResynthesis ==
    /\ pc = "crashed"
    /\ Kinds(calls) = <<"draft", "critique", "revise">>
    /\ gtoc_number \in DOMAIN files
    /\ written = <<gtoc_number>>

\* C9: after main has built it the index equals load_gtoc_pdfs_by_placement of
\* the tree and no step changes it; a completed synthesis of n does not enter
\* "gtoc<n>", so a later generation request for n starts a synthesis again, and
\* a completed synthesis replaces the three outputs of n by its own.
C9_IndexNeverChanges ==
    /\ [](pc # "main" => gtoc_data = load_gtoc_pdfs_by_placement(fs))
    /\ [][/\ pc # "main" => gtoc_data' = gtoc_data
          /\ (pc = "input" /\ turns' = turns + 1 /\ Requested(user_input').some
              /\ Requested(user_input').val \in DOMAIN files)
                => pc' = "draft" /\ gtoc_number' = Requested(user_input').val
          /\ (pc \in {"critique", "revise"} /\ outcome' = "created")
                => files' = [n \in DOMAIN files \cup {gtoc_number} |->
                               IF n = gtoc_number
                               THEN [problem |-> problem_text', csv |-> csv_data',
                                     feedback |-> xai_feedback']
                               ELSE files[n]]
       ]_vars

\* C9 witness: the second synthesis of an event replaced the outputs of the first
C9_Witness_Overwritten ==
    /\ outcome = "created"
    /\ Len(written) = 2
    /\ written[1] = written[2]
    /\ gtoc_number \in DOMAIN files0
    /\ files[gtoc_number] # files0[gtoc_number]

\* the event numbers a line refers to: every "gtoc" followed by a number
References(input) ==
    {NumVal[Lower(input)[SkipSpace(Lower(input), i + 1)]] :
        i \in {j \in 1..Len(input) : LabelAt(Lower(input), "gtoc", j)}}

\* C4: a line all of whose event numbers are 100 or more is never routed to a
\* synthesis and never to an answer about one event: no event key is matched,
\* whatever verbs or rank words the line holds.
C4_EventNumberCap ==
    (pc \in {"input", "answer", "draft"} /\ turns > 0
     /\ References(user_input) # {} /\ \A n \in References(user_input) : n >= 100)
        => /\ outcome # "generate"
           /\ outcome = "answer" => prompt.tmpl = "Based on all known GTOCs"

\* C7: in an answer turn for an indexed event and an extracted rank, the prompt
\* is the 'based only on this content' prompt, made of the first 2000
\* characters of the rank's stored text and the line as typed, whenever the
\* event's map has an entry for the rank, whatever its text; the 'no info'
\* notice is the prompt exactly when the map has no entry for the rank.
C7_ScopedPromptWheneverEntry ==
    LET req == parse_gtoc_request(user_input) IN
    (pc = "answer" /\ req.gtoc_key.some /\ req.placement_key.some
     /\ DictHas(gtoc_data, req.gtoc_key.val)) =>
        LET placements == DictGet(gtoc_data, req.gtoc_key.val).val
            rank == req.placement_key.val
        IN  IF DictHas(placements, rank)
            THEN /\ prompt.tmpl = "Based only on this content"
                 /\ prompt.context = Slice(DictGet(placements, rank).val, 2000)
                 /\ prompt.asks /\ prompt.question = user_input
            ELSE prompt.tmpl = "No info for"

\* the stored texts of the index, in iteration order
RECURSIVE Entries(_)
Entries(data) ==
    IF data = <<>> THEN <<>>
    ELSE [i \in 1..Len(Head(data).value) |->
             [event |-> Head(data).key, rank |-> Head(data).value[i].key,
              text |-> Head(data).value[i].value]]
         \o Entries(Tail(data))

\* the labelled excerpt of one entry: label, at most 500 characters, blank line
Excerpt(e) ==
    <<Lit(Join(Upper(e.event)) \o " " \o UpperTok(e.rank) \o ":\n")>>
    \o Slice(e.text, 500) \o <<Lit("\n\n")>>

RECURSIVE Concat(_)
Concat(texts) == IF texts = <<>> THEN <<>> ELSE Head(texts) \o Concat(Tail(texts))

Excerpts(data) == Concat([i \in 1..Len(Entries(data)) |-> Excerpt(Entries(data)[i])])

\* C8: the context of a global answer's prompt is the first 3000 characters of
\* the labelled excerpts (at most 500 characters of text each) of all entries in
\* index order: exactly 3000 characters when the excerpts are longer than that,
\* all of them otherwise, and the line as typed follows it.
C8_GlobalContextCut ==
    (pc = "answer" /\ ~parse_gtoc_request(user_input).gtoc_key.some) =>
        LET all == Excerpts(gtoc_data) IN
        /\ prompt.tmpl = "Based on all known GTOCs"
        /\ TextLen(prompt.context) <= 3000
        /\ TextLen(all) > 3000 => TextLen(prompt.context) = 3000
        /\ TextLen(all) <= 3000 => prompt.context = all
        /\ prompt.context = Slice(all, TextLen(prompt.context))
        /\ prompt.asks /\ prompt.question = user_input

\* C8 witness: a global answer over a corpus whose excerpts exceed 3000
\* characters, asked with a line that names an event number over 99
C8_Witness_Cut ==
    /\ pc = "answer"
    /\ prompt.tmpl = "Based on all known GTOCs"
    /\ TextLen(Excerpts(gtoc_data)) > 3000
    /\ TextLen(prompt.context) = 3000
    /\ References(user_input) = {150}

\* the event folder an index key was built from
FolderOf(key) == CHOOSE i \in 1..Len(fs) : fs[i].isdir /\ Lower(fs[i].name) = key

\* the .pdf files of the rank folders of one event that classify to `rank`, in
\* traversal order
RECURSIVE RankDocuments(_, _)
RankDocuments(listing, rank) ==
    IF listing = <<>> THEN <<>>
    ELSE (IF Head(listing).isdir /\ Placement(Head(listing).name) = rank
          THEN SelectSeq(Head(listing).entries, IsPdf)
          ELSE <<>>)
         \o RankDocuments(Tail(listing), rank)

\* C6: in the index as built, every rank entry of every event holds the text
\* of the first .pdf met in traversal order among the folders of that event
\* that classify to the rank; a later one, in the same folder or in a later
\* folder of the same rank, never replaces it.
C6_FirstMatchWins ==
    pc # "main" =>
        \A i \in 1..Len(gtoc_data) :
            \A j \in 1..Len(gtoc_data[i].value) :
                LET docs == RankDocuments(fs[FolderOf(gtoc_data[i].key)].entries,
                                          gtoc_data[i].value[j].key)
                IN  /\ docs # <<>>
                    /\ gtoc_data[i].value[j].value = extract_text_from_pdf(docs[1])

====
